---- MODULE Spec2Model ----
(***************************************************************************)
(* Model of Battery_Simulator.py: the task-configuration widgets, the      *)
(* 100-tick random telemetry loop, the simple CSV export and the detailed  *)
(* report built by generate_simulation_csv.                                *)
(*                                                                         *)
(* Numbers are fixed-point integers: voltages and currents in hundredths   *)
(* (round(x, 2)), temperatures in tenths (round(x, 1)), capacity and       *)
(* energy in millionths (round(x, 6)).  A time of day is a number of       *)
(* seconds since midnight.  A CSV table is a record of its column names    *)
(* and its rows; a row is the tuple of its fields in column order.  The     *)
(* degree, ohm and non-breaking-hyphen signs of the source's labels are    *)
(* written C, Ohm and -.  The literal decimals of the two fixed rows are   *)
(* kept as the text the source gives them.                                 *)
(***************************************************************************)
EXTENDS Integers, Sequences, FiniteSets, TLC

VARIABLES
    pc,            \* position of the script / of the formatter call
    task_list,     \* the task dictionaries collected from the widgets
    widgets,       \* the values the task widgets hold when the script runs
    t,             \* next value of the loop variable of the tick loop
    rng,           \* state of the pseudo-random generator
    draws,         \* the raw draws each tick consumed, <<uv, uc, ut>> per tick
    voltages, currents, temps, times,
    start_time,
    jump_events,
    simple_csv,    \* data of the "Download Simple CSV" button
    result,        \* outcome of generate_simulation_csv
    halfUp         \* how round() settles a decimal tie of an inexact float

vars == <<pc, task_list, widgets, t, rng, draws, voltages, currents, temps, times,
          start_time, jump_events, simple_csv, result, halfUp>>

----------------------------------------------------------------------------
(* Bounds of the model *)

\* longest argument sequence handed to the formatter on its own
MaxLen == 3

----------------------------------------------------------------------------
(* Program constants *)

NumTicks == 100
MinTasks == 1
MaxTasks == 5
DefaultTasks == 2
SliderMax == 60
SliderDefault == 10
SampleSeconds == 2
SecondsPerHour == 3600
SecondsPerDay == 86400
VoltLo == 300
VoltHi == 420
CurLo == 50
CurHi == 500
TempLo == 250
TempHi == 450

task_types == <<"CC_CV", "IDLE", "CC_CD">>

----------------------------------------------------------------------------
(* Python built-ins *)

Min2(a, b) == IF a < b THEN a ELSE b

\* round(n / d) to the nearest integer; a tie goes up or down as `up` says
RoundDiv(n, d, up) ==
    LET q == n \div d
        r == n % d
    IN  IF 2 * r > d THEN q + 1
        ELSE IF 2 * r < d THEN q
        ELSE IF up THEN q + 1 ELSE q

\* f"{n:02d}"
Pad2(n) == IF n < 10 THEN "0" \o ToString(n) ELSE ToString(n)

\* variant: the seconds field taken from the index instead of the offset
SamplingTimeBug(i) ==
    Pad2((i * SampleSeconds) \div 60) \o ":" \o Pad2(i % 60)

\* f"{(i*2)//60:02d}:{(i*2)%60:02d}"
SamplingTime(i) ==
    Pad2((i * SampleSeconds) \div 60) \o ":" \o Pad2((i * SampleSeconds) % 60)

\* (start_time + timedelta(seconds=i*2)).strftime("%H:%M:%S")
ActualTime(start, i) ==
    LET s == (start + i * SampleSeconds) % SecondsPerDay
    IN  Pad2(s \div SecondsPerHour) \o ":" \o Pad2((s % SecondsPerHour) \div 60)
          \o ":" \o Pad2(s % 60)

\* variant: zip(voltages, currents, temps), unpacked as (v, t, c)
Zip3Swapped(vs, ts, cs) ==
    [k \in 1..Min2(Len(vs), Min2(Len(ts), Len(cs))) |-> <<vs[k], cs[k], ts[k]>>]

\* variant: itertools.zip_longest(voltages, temps, currents, fillvalue=0)
Zip3Longest(vs, ts, cs) ==
    LET n == IF Len(vs) >= Len(ts) /\ Len(vs) >= Len(cs) THEN Len(vs)
             ELSE IF Len(ts) >= Len(cs) THEN Len(ts) ELSE Len(cs)
        At(q, k) == IF k <= Len(q) THEN q[k] ELSE 0
    IN  [k \in 1..n |-> <<At(vs, k), At(ts, k), At(cs, k)>>]

\* zip(voltages, temps, currents): stops at the shortest argument
Zip3(vs, ts, cs) ==
    [k \in 1..Min2(Len(vs), Min2(Len(ts), Len(cs))) |-> <<vs[k], ts[k], cs[k]>>]

\* the largest of s[lo..hi], lo <= hi; the comparisons of max() are done by
\* halves, which keeps the evaluation of a 100-element sequence shallow
RECURSIVE MaxOf(_, _, _)
MaxOf(s, lo, hi) ==
    IF lo = hi THEN s[lo]
    ELSE LET mid == (lo + hi) \div 2
             a == MaxOf(s, lo, mid)
             b == MaxOf(s, mid + 1, hi)
         IN  IF b > a THEN b ELSE a

\* variant: temps[-1], the last reading instead of the largest
PyMaxLast(s) ==
    IF Len(s) = 0 THEN [raised |-> "IndexError", value |-> 0]
    ELSE [raised |-> "", value |-> s[Len(s)]]

\* variant: max(temps, default=0), which accepts an empty sequence
PyMaxDefault(s) ==
    IF Len(s) = 0 THEN [raised |-> "", value |-> 0]
    ELSE [raised |-> "", value |-> MaxOf(s, 1, Len(s))]

\* max(temps): raises ValueError on an empty sequence
PyMax(s) ==
    IF Len(s) = 0 THEN [raised |-> "ValueError", value |-> 0]
    ELSE [raised |-> "", value |-> MaxOf(s, 1, Len(s))]

----------------------------------------------------------------------------
(* generate_simulation_csv *)

TestDataColumns ==
    <<"Sample ID", "Sampling", "Termination", "Actual Time", "Voltage (V)",
      "Current (A)", "Capacity (Ah)", "Energy (Wh)", "Step Type",
      "Cycle Count", "Step Num", "DC Resist", "Temperature (C)">>

StatsColumns ==
    <<"Cycle Num", "CC Charge", "CV Charge", "Total Charge", "Total Disch",
      "CC Charge Time", "CV Charge Time", "CC Disch Time", "Total Disch Time",
      "Efficiency (%)", "Capacity (%)", "Avg Disch Volt", "Median Volt",
      "Max Temp", "DC Resistance (mOhm)">>

OpLogColumns == <<"Timestamp", "Sample ID", "Event Type">>

ProcColumns ==
    <<"Step Type", "Constant Type", "Voltage Limit", "Current Limit",
      "Capacity Limit", "Time Limit", "Temp Limit", "Delta V Limit",
      "Target Cap", "Step Num", "Jump Count">>

\* capacity = round(c * 2 / 3600, 6), c in hundredths, result in millionths
Capacity(c) == RoundDiv(c * SampleSeconds * 10000, SecondsPerHour, halfUp)

\* energy = round(capacity * v, 6), v in hundredths, result in millionths
Energy(cap, v) == RoundDiv(cap * v, 100, halfUp)

\* variant: i <= len(voltages) // 2
StepTypeBug(i, vs) == IF i <= Len(vs) \div 2 THEN "Constant Current" ELSE "Rest"

\* "Constant Current" if i < len(voltages) // 2 else "Rest"
StepType(i, vs) == IF i < Len(vs) \div 2 THEN "Constant Current" ELSE "Rest"

\* one element of test_data_rows; i is the 0-based index of enumerate
TestDataRow(i, v, temp, c, vs, start) ==
    <<i + 1, SamplingTime(i), "", ActualTime(start, i), v, c,
      Capacity(c), Energy(Capacity(c), v), StepType(i, vs), 1, i + 1, 0, temp>>

TestDataRows(vs, ts, cs, start) ==
    LET z == Zip3(vs, ts, cs)
    IN  [k \in 1..Len(z) |->
            TestDataRow(k - 1, z[k][1], z[k][2], z[k][3], vs, start)]

\* the single row of stats_df; the fixed decimals are kept as written
StatsRow(maxTemp) ==
    <<1, "0.056245", 0, "0.056245", "0.042359",
      "00:40.0", "00:00.0", "00:30.0", "00:30.0", "75.31297",
      100, "3.207877", "3.207877", maxTemp, "15.6">>

\* variant: events whose sample_id is below 1 are dropped
OpLogValidated(events) ==
    LET InRange(e) == e.sample_id >= 1
        kept == SelectSeq(events, InRange)
    IN  [k \in 1..Len(kept) |->
            <<kept[k].timestamp, kept[k].sample_id, kept[k].event>>]

\* op_log = [[e["timestamp"], e["sample_id"], e["event"]] for e in jump_events]
OpLog(events) ==
    [k \in 1..Len(events) |->
        <<events[k].timestamp, events[k].sample_id, events[k].event>>]

\* variant: Jump Count taken from the number of jump events
ProcRowCounted ==
    <<"CC-CV Charge", "Constant Voltage", 5, "3.65", "3.65",
      "0.05", 6, "00:40.0", "0.03", 0, Len(jump_events)>>

\* the single row of proc_df
ProcRow ==
    <<"CC-CV Charge", "Constant Voltage", 5, "3.65", "3.65",
      "0.05", 6, "00:40.0", "0.03", 0, 1>>

\* pd.DataFrame(rows, columns=...) followed by to_csv(output, index=False)
DataFrame(columns, rows) == [columns |-> columns, rows |-> rows]

\* output.write(heading) followed by df.to_csv(output, index=False)
Section(heading, df) == [heading |-> heading, columns |-> df.columns, rows |-> df.rows]

generate_simulation_csv(vs, ts, cs, start, events) ==
    LET test_df == DataFrame(TestDataColumns, TestDataRows(vs, ts, cs, start))
        mx      == PyMax(ts)
        stats_df == DataFrame(StatsColumns, <<StatsRow(mx.value)>>)
        op_log_df == DataFrame(OpLogColumns, OpLog(events))
        proc_df == DataFrame(ProcColumns, <<ProcRow>>)
    IN  IF mx.raised # ""
        THEN [raised |-> mx.raised, output |-> <<>>]
        ELSE [raised |-> "",
              output |-> << Section("### Test Data ###\n", test_df),
                            Section("\n### Cycle Statistics ###\n", stats_df),
                            Section("\n### Operation Log ###\n", op_log_df),
                            Section("\n### Process Information ###\n", proc_df) >>]

----------------------------------------------------------------------------
(* The formatter on its own: any argument sequences, then one call *)

VoltSamples == {320, 415}
CurSamples == {50, 285}
TempSamples == {250, 400}
\* datetime.datetime.now(): 09:30:00, and 23:58:21 so that a run passes midnight
StartTimes == {34200, 86301}
\* 23:59:57, so that a short sequence passes midnight
FormatStartTimes == {86397}

SeqsUpTo(S, n) == UNION {[1..m -> S] : m \in 0..n}

\* the event of the call site, and one whose sample_id names no sample
TimeLimitEvent ==
    [timestamp |-> "19:31.7", sample_id |-> 3,
     event |-> "Step jumped due to time limit"]
StrayEvent ==
    [timestamp |-> "00:02.0", sample_id |-> 0,
     event |-> "Step jumped due to voltage limit"]

EventLists ==
    { <<>>, <<TimeLimitEvent>>, <<StrayEvent>>,
      <<TimeLimitEvent, StrayEvent>>, <<StrayEvent, TimeLimitEvent>>,
      <<StrayEvent, StrayEvent>> }

\* the widgets before anyone touches them: value=2 tasks, the first option of
\* each selectbox, an empty text_input, number_input at 0, the slider at 10
DefaultValues == [text |-> "", number |-> 0, slider |-> SliderDefault]
DefaultWidgets ==
    [num_tasks |-> DefaultTasks,
     task_type |-> [i \in 1..MaxTasks |-> task_types[1]],
     values |-> DefaultValues]

NoResult == [raised |-> "", output |-> <<>>]
NoCsv == [columns |-> <<>>, rows |-> <<>>]

InitFormat ==
    /\ pc = "call"
    /\ task_list = <<>>
    /\ widgets = DefaultWidgets
    /\ t = 0
    /\ rng = 0
    /\ draws = <<>>
    /\ voltages \in SeqsUpTo(VoltSamples, MaxLen)
    /\ temps \in SeqsUpTo(TempSamples, MaxLen)
    /\ currents \in SeqsUpTo(CurSamples, MaxLen)
    /\ times = <<>>
    /\ start_time \in FormatStartTimes
    /\ jump_events \in EventLists
    /\ simple_csv = NoCsv
    /\ result = NoResult
    /\ halfUp \in BOOLEAN

CallFormat ==
    /\ pc = "call"
    /\ result' = generate_simulation_csv(voltages, temps, currents, start_time,
                                         jump_events)
    /\ pc' = "returned"
    /\ UNCHANGED <<task_list, widgets, t, rng, draws, voltages, currents, temps,
                   times, start_time, jump_events, simple_csv, halfUp>>

NextFormat == CallFormat

FormatSpec == InitFormat /\ [][NextFormat]_vars

----------------------------------------------------------------------------
(* The pseudo-random generator behind random.uniform *)

RngM == 251
RngA == 33
RngC == 7
Seeds == {1, 100}

\* the generator's next state; rng / RngM is the value random() returns
RngNext(s) == (RngA * s + RngC) % RngM

\* round(random.uniform(lo, hi), digits) for the draw u / RngM, in fixed point
Uniform(lo, hi, u) == lo + RoundDiv((hi - lo) * u, RngM, halfUp)

----------------------------------------------------------------------------
(* The script: task widgets, Start button, tick loop, exports *)

\* what the five task-type selectboxes can hold
TypeChoices ==
    { [i \in 1..MaxTasks |-> task_types[1]],
      <<"IDLE", "CC_CD", "CC_CV", "IDLE", "CC_CD">>,
      <<"CC_CD", "IDLE", "IDLE", "CC_CV", "CC_CV">> }

\* what the text_input, number_input and slider widgets can hold
ValueChoices ==
    { DefaultValues, [text |-> "5A", number |-> 5, slider |-> SliderMax] }

\* what the number_input of the task count can hold: its least, default and
\* greatest value
NumTaskChoices == {MinTasks, DefaultTasks, MaxTasks}

WidgetStates ==
    [num_tasks : NumTaskChoices, task_type : TypeChoices, values : ValueChoices]

Init ==
    /\ pc = "tasks"
    /\ task_list = <<>>
    /\ widgets = DefaultWidgets
    /\ t = 0
    /\ rng \in Seeds
    /\ draws = <<>>
    /\ voltages = <<>>
    /\ currents = <<>>
    /\ temps = <<>>
    /\ times = <<>>
    /\ start_time = 0
    /\ jump_events = <<>>
    /\ simple_csv = NoCsv
    /\ result = NoResult
    /\ halfUp \in BOOLEAN

\* the dictionary built for one task from the widgets of its type
NewTask(ty, w) ==
    IF ty = "CC_CV"
    THEN [task_type |-> ty, cc_cp |-> w.text, cv_voltage |-> w.number,
          current |-> w.number, capacity |-> w.number, time_seconds |-> w.slider]
    ELSE IF ty = "IDLE"
    THEN [task_type |-> ty, time_seconds |-> w.slider]
    ELSE [task_type |-> ty, cc_cp |-> w.text, voltage |-> w.number,
          capacity |-> w.number, time_seconds |-> w.slider]

\* task_list = []; for i in range(num_tasks): ... task_list.append(task)
CollectTasks ==
    /\ pc = "tasks"
    /\ task_list' = [i \in 1..widgets.num_tasks |->
                        NewTask(widgets.task_type[i], widgets.values)]
    /\ pc' = "button"
    /\ UNCHANGED <<widgets, t, rng, draws, voltages, currents, temps, times,
                   start_time, jump_events, simple_csv, result, halfUp>>

\* the user changes task widgets: the script runs again from its first line
Interact(w) ==
    /\ pc = "idle"
    /\ w # widgets
    /\ widgets' = w
    /\ task_list' = <<>>
    /\ pc' = "tasks"
    /\ UNCHANGED <<t, rng, draws, voltages, currents, temps, times,
                   start_time, jump_events, simple_csv, result, halfUp>>

\* st.button("Start Simulation") is False: the script ends
NoStart ==
    /\ pc = "button"
    /\ pc' = "idle"
    /\ UNCHANGED <<task_list, widgets, t, rng, draws, voltages, currents, temps,
                   times, start_time, jump_events, simple_csv, result, halfUp>>

\* if st.button("Start Simulation"): the lists, and start_time
StartSimulation ==
    /\ pc = "button"
    /\ pc' = "running"
    /\ voltages' = <<>>
    /\ currents' = <<>>
    /\ temps' = <<>>
    /\ times' = <<>>
    /\ t' = 0
    /\ start_time' \in StartTimes
    /\ UNCHANGED <<task_list, widgets, rng, draws, jump_events, simple_csv,
                   result, halfUp>>

\* variant: times.append(t + 1)
TickOneBased ==
    /\ pc = "running"
    /\ t < NumTicks
    /\ LET uv == RngNext(rng)
           uc == RngNext(uv)
           ut == RngNext(uc)
       IN  /\ voltages' = Append(voltages, Uniform(VoltLo, VoltHi, uv))
           /\ currents' = Append(currents, Uniform(CurLo, CurHi, uc))
           /\ temps' = Append(temps, Uniform(TempLo, TempHi, ut))
           /\ times' = Append(times, t + 1)
           /\ draws' = Append(draws, <<uv, uc, ut>>)
           /\ rng' = ut
    /\ t' = t + 1
    /\ UNCHANGED <<pc, task_list, widgets, start_time, jump_events, simple_csv,
                   result, halfUp>>

\* variant: an IDLE first task forces the current to zero
TickTaskDriven ==
    /\ pc = "running"
    /\ t < NumTicks
    /\ LET uv == RngNext(rng)
           uc == RngNext(uv)
           ut == RngNext(uc)
       IN  /\ voltages' = Append(voltages, Uniform(VoltLo, VoltHi, uv))
           /\ currents' = Append(currents,
                                 IF task_list[1].task_type = "IDLE" THEN 0
                                 ELSE Uniform(CurLo, CurHi, uc))
           /\ temps' = Append(temps, Uniform(TempLo, TempHi, ut))
           /\ times' = Append(times, t)
           /\ draws' = Append(draws, <<uv, uc, ut>>)
           /\ rng' = ut
    /\ t' = t + 1
    /\ UNCHANGED <<pc, task_list, widgets, start_time, jump_events, simple_csv,
                   result, halfUp>>

\* one iteration of `for t in range(100)`
Tick ==
    /\ pc = "running"
    /\ t < NumTicks
    /\ LET uv == RngNext(rng)
           uc == RngNext(uv)
           ut == RngNext(uc)
       IN  /\ voltages' = Append(voltages, Uniform(VoltLo, VoltHi, uv))
           /\ currents' = Append(currents, Uniform(CurLo, CurHi, uc))
           /\ temps' = Append(temps, Uniform(TempLo, TempHi, ut))
           /\ times' = Append(times, t)
           /\ draws' = Append(draws, <<uv, uc, ut>>)
           /\ rng' = ut
    /\ t' = t + 1
    /\ UNCHANGED <<pc, task_list, widgets, start_time, jump_events, simple_csv,
                   result, halfUp>>

SimpleColumns == <<"Time (s)", "Voltage (V)", "Current (A)", "Temperature (C)">>

\* df = pd.DataFrame({...}); df.to_csv(csv_buffer, index=False)
SimpleCsv(tm, vs, cs, ts) ==
    DataFrame(SimpleColumns, [k \in 1..Len(tm) |-> <<tm[k], vs[k], cs[k], ts[k]>>])

\* after the loop: the simple CSV, then the detailed report
Export ==
    /\ pc = "running"
    /\ t >= NumTicks
    /\ simple_csv' = SimpleCsv(times, voltages, currents, temps)
    /\ jump_events' = <<TimeLimitEvent>>
    /\ result' = generate_simulation_csv(voltages, temps, currents, start_time,
                                         jump_events')
    /\ pc' = "done"
    /\ UNCHANGED <<task_list, widgets, t, rng, draws, voltages, currents, temps,
                   times, start_time, halfUp>>

Next ==
    \/ \E w \in WidgetStates : Interact(w)
    \/ CollectTasks
    \/ NoStart
    \/ StartSimulation
    \/ Tick
    \/ Export

Spec == Init /\ [][Next]_vars

\* the script runs on its own once started: the loop body and what follows it
FairSpec == Spec /\ WF_vars(Tick) /\ WF_vars(Export)

----------------------------------------------------------------------------
(* Reading a report *)

Returned == pc = "returned"
Finished == pc \in {"returned", "done"}
SameLen == Len(voltages) = Len(currents) /\ Len(currents) = Len(temps)

Col(sec, name) == CHOOSE k \in 1..Len(sec.columns) : sec.columns[k] = name
FieldOf(sec, r, name) == sec.rows[r][Col(sec, name)]

\* the report was returned and its first section is the sample table with n
\* rows, row k holding the k-th voltage, current and temperature
RowsFollowInputs(n) ==
    /\ result.raised = ""
    /\ Len(result.output) >= 1
    /\ LET sec == result.output[1]
       IN  /\ sec.heading = "### Test Data ###\n"
           /\ Len(sec.rows) = n
           /\ \A k \in 1..n :
                 /\ FieldOf(sec, k, "Voltage (V)") = voltages[k]
                 /\ FieldOf(sec, k, "Current (A)") = currents[k]
                 /\ FieldOf(sec, k, "Temperature (C)") = temps[k]

DigitChars == <<"0", "1", "2", "3", "4", "5", "6", "7", "8", "9">>
TwoDigits(n) == DigitChars[(n \div 10) + 1] \o DigitChars[(n % 10) + 1]
MinSec(secs) == TwoDigits(secs \div 60) \o ":" \o TwoDigits(secs % 60)

FixedStatsRow ==
    <<1, "0.056245", 0, "0.056245", "0.042359",
      "00:40.0", "00:00.0", "00:30.0", "00:30.0", "75.31297",
      100, "3.207877", "3.207877", 0, "15.6">>

FixedProcRow ==
    <<"CC-CV Charge", "Constant Voltage", 5, "3.65", "3.65",
      "0.05", 6, "00:40.0", "0.03", 0, 1>>

Min3(a, b, c) == Min2(a, Min2(b, c))

----------------------------------------------------------------------------
(* Claims *)

\* C1, as stated: for equal-length sequences of ANY length N, the Test Data
\* section has exactly N data rows, the k-th carrying the k-th voltage,
\* current and temperature.  Fails for N = 0, where no report is returned.
C1_AnyLength ==
    (Returned /\ SameLen) => RowsFollowInputs(Len(voltages))

\* C1, amended: for equal-length sequences of length N >= 1, the Test Data
\* section has exactly N data rows in input order, the k-th row carrying the
\* k-th voltage, current and temperature.
C1_RowsInInputOrder ==
    (Returned /\ SameLen /\ Len(voltages) >= 1) => RowsFollowInputs(Len(voltages))

C1_Witness ==
    /\ Returned /\ SameLen /\ Len(voltages) >= 2
    /\ voltages[1] # voltages[2] /\ currents[1] # currents[2] /\ temps[1] # temps[2]
    /\ result.raised = ""

\* C2: in the sample table, the row at 0-based index i has sample_id i + 1
\* (strictly increasing from 1) and its Sampling field is the MM:SS rendering
\* of 2*i seconds, both parts zero-padded to two digits.
C2_SampleIdAndOffset ==
    (Finished /\ result.raised = "") =>
        LET sec == result.output[1]
        IN  \A k \in 1..Len(sec.rows) :
               /\ FieldOf(sec, k, "Sample ID") = k
               /\ k > 1 => FieldOf(sec, k, "Sample ID") > FieldOf(sec, k - 1, "Sample ID")
               /\ FieldOf(sec, k, "Sampling") = MinSec(2 * (k - 1))

C2_Witness ==
    /\ pc = "done" /\ result.raised = ""
    /\ Len(result.output[1].rows) = NumTicks
    /\ FieldOf(result.output[1], 31, "Sampling") = "01:00"
    /\ FieldOf(result.output[1], NumTicks, "Sampling") = "03:18"

\* C3: for N >= 1 samples, the row at 0-based index i is "Constant Current"
\* when i < N div 2 and "Rest" otherwise; with N = 1 every row is "Rest"; no
\* "Constant Current" row follows a "Rest" row.
C3_StepTypePartition ==
    (Returned /\ SameLen /\ Len(voltages) >= 1) =>
        /\ result.raised = ""
        /\ LET sec == result.output[1]
               n == Len(voltages)
           IN  /\ Len(sec.rows) = n
               /\ \A k \in 1..n :
                     FieldOf(sec, k, "Step Type") =
                        IF 2 * k <= n THEN "Constant Current" ELSE "Rest"
               /\ n = 1 => FieldOf(sec, 1, "Step Type") = "Rest"
               /\ \A j, k \in 1..n :
                     (j < k /\ FieldOf(sec, j, "Step Type") = "Rest")
                        => FieldOf(sec, k, "Step Type") = "Rest"

C3_Witness ==
    /\ Returned /\ SameLen /\ Len(voltages) = 3 /\ result.raised = ""
    /\ FieldOf(result.output[1], 1, "Step Type") = "Constant Current"
    /\ FieldOf(result.output[1], 2, "Step Type") = "Rest"

\* C4: for a non-empty temperature sequence, the Cycle Statistics section has
\* one row whose Max Temp is the maximum of the sequence (an element of it
\* that no element exceeds), and whose other fields are fixed values.
C4_MaxTemp ==
    (Returned /\ Len(temps) >= 1) =>
        /\ result.raised = ""
        /\ LET sec == result.output[2]
               mt == Col(sec, "Max Temp")
           IN  /\ sec.heading = "\n### Cycle Statistics ###\n"
               /\ Len(sec.rows) = 1
               /\ \E k \in 1..Len(temps) : sec.rows[1][mt] = temps[k]
               /\ \A k \in 1..Len(temps) : temps[k] <= sec.rows[1][mt]
               /\ Len(sec.rows[1]) = Len(FixedStatsRow)
               /\ \A j \in 1..Len(FixedStatsRow) :
                     j # mt => sec.rows[1][j] = FixedStatsRow[j]

C4_Witness ==
    /\ Returned /\ temps = <<250, 400, 250>> /\ result.raised = ""
    /\ FieldOf(result.output[2], 1, "Max Temp") = 400

\* C5: the Operation Log section has one row per jump event, in input order,
\* with columns (timestamp, sample_id, event); no event gives a header-only
\* section; an event whose sample_id is outside 1..N is emitted unchanged.
C5_EventLog ==
    (Returned /\ result.raised = "") =>
        LET sec == result.output[3]
        IN  /\ sec.heading = "\n### Operation Log ###\n"
            /\ sec.columns = <<"Timestamp", "Sample ID", "Event Type">>
            /\ Len(sec.rows) = Len(jump_events)
            /\ \A k \in 1..Len(jump_events) :
                  /\ sec.rows[k][1] = jump_events[k].timestamp
                  /\ sec.rows[k][2] = jump_events[k].sample_id
                  /\ sec.rows[k][3] = jump_events[k].event
            /\ jump_events = <<>> => sec.rows = <<>>

C5_Witness ==
    /\ Returned /\ result.raised = ""
    /\ Len(voltages) = 1 /\ SameLen
    /\ jump_events = <<StrayEvent, TimeLimitEvent>>
    /\ \A k \in 1..2 : jump_events[k].sample_id \notin 1..Len(voltages)
    /\ Len(result.output[3].rows) = 2

\* C6: whenever the formatter returns, the report is exactly the four
\* sections Test Data, Cycle Statistics, Operation Log, Process Information in
\* that order; Cycle Statistics and Process Information hold exactly one row
\* each, and the Process Information row is the same for all inputs.
C6_FourSections ==
    (Returned /\ result.raised = "") =>
        /\ Len(result.output) = 4
        /\ result.output[1].heading = "### Test Data ###\n"
        /\ result.output[2].heading = "\n### Cycle Statistics ###\n"
        /\ result.output[3].heading = "\n### Operation Log ###\n"
        /\ result.output[4].heading = "\n### Process Information ###\n"
        /\ Len(result.output[2].rows) = 1
        /\ Len(result.output[4].rows) = 1
        /\ result.output[4].rows[1] = FixedProcRow

C6_Witness ==
    /\ Returned /\ result.raised = ""
    /\ Len(result.output[1].rows) = 3
    /\ Len(result.output[3].rows) = 2

\* C7: with an empty temperature sequence the call fails with the
\* empty-input error of max() and returns no report text, neither a partial
\* report nor one with an empty sample table.
C7_EmptyTempsRaises ==
    (Returned /\ Len(temps) = 0) =>
        /\ result.raised = "ValueError"
        /\ Len(result.output) = 0

C7_Witness ==
    /\ Returned /\ temps = <<>> /\ voltages = <<>> /\ currents = <<>>
    /\ result.raised = "ValueError"

\* C8: with non-empty sequences of different lengths no error is raised and
\* the sample table has min(len(voltages), len(temps), len(currents)) rows,
\* each built from the same-index elements of the three sequences.
C8_TruncatesToShortest ==
    (Returned /\ ~SameLen /\ Len(voltages) >= 1 /\ Len(temps) >= 1
              /\ Len(currents) >= 1) =>
        RowsFollowInputs(Min3(Len(voltages), Len(temps), Len(currents)))

C8_Witness ==
    /\ Returned /\ result.raised = ""
    /\ Len(voltages) = 3 /\ Len(temps) = 1 /\ Len(currents) = 2
    /\ Len(result.output[1].rows) = 1

\* C9: once Start fires the loop runs to completion: it leaves the running
\* state only after 100 ticks (no cancellation path), it does leave it, on
\* completion voltages, currents, temps and times hold 100 entries each with
\* times[i] = i, and at every tick the four sequences have equal length.
C9_LoopRunsToCompletion ==
    /\ [](/\ Len(voltages) = Len(times)
          /\ Len(currents) = Len(times)
          /\ Len(temps) = Len(times)
          /\ Len(times) <= NumTicks)
    /\ [](pc = "done" =>
             /\ Len(voltages) = NumTicks /\ Len(currents) = NumTicks
             /\ Len(temps) = NumTicks /\ Len(times) = NumTicks
             /\ \A i \in 0..(NumTicks - 1) : times[i + 1] = i)
    /\ [][pc = "running" =>
             \/ pc' = "running" /\ Len(times') = Len(times) + 1
             \/ pc' = "done" /\ Len(times) = NumTicks /\ times' = times]_vars
    /\ (pc = "running") ~> (pc = "done")

C9_Witness ==
    /\ pc = "done"
    /\ Len(times) = NumTicks /\ Len(voltages) = NumTicks
    /\ times[1] = 0 /\ times[NumTicks] = NumTicks - 1

\* the sample a tick makes of its own three draws
SampleOf(d) ==
    <<Uniform(VoltLo, VoltHi, d[1]), Uniform(CurLo, CurHi, d[2]),
      Uniform(TempLo, TempHi, d[3])>>

\* C10: the generated data is a function of the random draws alone: whatever
\* the task list, the sample of tick k is determined by the three draws of
\* tick k (not by the tasks, not by an earlier sample), and the Simple CSV and
\* the detailed report rows carry exactly these samples.
C10_TasksNeverInfluenceData ==
    /\ Len(draws) = Len(voltages)
    /\ Len(draws) = Len(currents)
    /\ Len(draws) = Len(temps)
    /\ \A k \in 1..Len(draws) :
          <<voltages[k], currents[k], temps[k]>> = SampleOf(draws[k])
    /\ pc = "done" =>
          /\ result.raised = ""
          /\ Len(simple_csv.rows) = Len(draws)
          /\ Len(result.output[1].rows) = Len(draws)
          /\ \A k \in 1..Len(draws) :
                LET smp == SampleOf(draws[k])
                    sec == result.output[1]
                IN  /\ simple_csv.rows[k] = <<k - 1, smp[1], smp[2], smp[3]>>
                    /\ FieldOf(sec, k, "Voltage (V)") = smp[1]
                    /\ FieldOf(sec, k, "Current (A)") = smp[2]
                    /\ FieldOf(sec, k, "Temperature (C)") = smp[3]

C10_Witness ==
    /\ pc = "done"
    /\ task_list[1].task_type = "IDLE"
    /\ Len(result.output[1].rows) = NumTicks
    /\ Len(simple_csv.rows) = NumTicks

====
